---- MODULE Spec2Model ----
(***************************************************************************)
(* State-machine model of WorkflowEngine                                   *)
(* (src/backend/core/workflow_engine.py).                                  *)
(*                                                                         *)
(* The engine runs on one asyncio event loop: code between two awaits is   *)
(* one atomic step.  The suspension points of the engine are               *)
(*   - the driver's asyncio.sleep at the end of each pass of               *)
(*     _execute_workflow,                                                  *)
(*   - the executor call of _execute_task (and the listener call just      *)
(*     before it, between which no engine state changes),                  *)
(*   - the listener calls for task_completed / task_failed, which sit      *)
(*     between the status write and the rest of _execute_task,             *)
(*   - the gap between asyncio.create_task(_execute_task(..)) and the      *)
(*     first step of the created coroutine.                                *)
(* The _execution_lock is only ever held across one statement without an   *)
(* await, so acquiring it never suspends.                                  *)
(***************************************************************************)
EXTENDS Integers, Sequences, FiniteSets, TLC

\* ------------------------------------------------------------------ bounds
MaxRetries == 1
MaxTasksLimit == 2

\* ------------------------------------------------------------- vocabulary
WorkflowIds == {"w1", "w2"}
TaskIds == {"a", "b", "c"}
Ghost == "ghost"

PENDING == "pending"
RUNNING == "running"
COMPLETED == "completed"
FAILED == "failed"
CANCELLED == "cancelled"
CREATED == "created"

\* Workflow graphs submitted to the engine.
Chain ==
    [tasks |-> <<"a", "b", "c">>,
     dependencies |-> [t \in TaskIds |->
                         IF t = "b" THEN {"a"} ELSE IF t = "c" THEN {"b"} ELSE {}],
     max_retries |-> [t \in TaskIds |-> IF t = "b" THEN MaxRetries ELSE 0],
     executor |-> [t \in TaskIds |-> "registered"]]

FanIn ==
    [tasks |-> <<"a", "b", "c">>,
     dependencies |-> [t \in TaskIds |-> IF t = "c" THEN {"a", "b"} ELSE {}],
     max_retries |-> [t \in TaskIds |-> IF t = "a" THEN MaxRetries ELSE 0],
     executor |-> [t \in TaskIds |-> "registered"]]

MissingDependency ==
    [tasks |-> <<"a", "b">>,
     dependencies |-> [t \in TaskIds |-> IF t = "b" THEN {Ghost} ELSE {}],
     max_retries |-> [t \in TaskIds |-> IF t = "a" THEN MaxRetries ELSE 0],
     executor |-> [t \in TaskIds |-> "registered"]]

Cycle ==
    [tasks |-> <<"a", "b", "c">>,
     dependencies |-> [t \in TaskIds |->
                         IF t = "b" THEN {"c"} ELSE IF t = "c" THEN {"b"} ELSE {}],
     max_retries |-> [t \in TaskIds |-> 0],
     executor |-> [t \in TaskIds |-> "registered"]]

Single ==
    [tasks |-> <<"a">>,
     dependencies |-> [t \in TaskIds |-> {}],
     max_retries |-> [t \in TaskIds |-> 0],
     executor |-> [t \in TaskIds |-> "registered"]]

\* Task a has no executor registered under its agent_type:action and there is
\* no agent of its type; b waits for a.
NoExecutor ==
    [tasks |-> <<"a", "b">>,
     dependencies |-> [t \in TaskIds |-> IF t = "b" THEN {"a"} ELSE {}],
     max_retries |-> [t \in TaskIds |-> IF t = "a" THEN MaxRetries ELSE 0],
     executor |-> [t \in TaskIds |-> IF t = "a" THEN "none" ELSE "registered"]]

\* Three tasks without dependencies.
Independent ==
    [tasks |-> <<"a", "b", "c">>,
     dependencies |-> [t \in TaskIds |-> {}],
     max_retries |-> [t \in TaskIds |-> 0],
     executor |-> [t \in TaskIds |-> "registered"]]

\* A workflow submitted with an empty task list.
Empty ==
    [tasks |-> << >>,
     dependencies |-> [t \in TaskIds |-> {}],
     max_retries |-> [t \in TaskIds |-> 0],
     executor |-> [t \in TaskIds |-> "registered"]]

Graphs == {Chain, FanIn, MissingDependency, Cycle, Empty, NoExecutor, Independent}

\* engine.workflow_listeners, in registration order: the first listener raises
\* on every event, the second returns.
workflow_listeners == <<"raises", "returns">>

\* The workflow-level events of _notify_listeners.
EventNames == {"workflow_created", "workflow_started", "workflow_completed",
               "workflow_failed", "workflow_cancelled"}

\* Outcomes of get_workflow_status.  A snapshot carries the dictionary's
\* status and progress entries; progress_percentage, a float in the code, is
\* kept as the exact fraction (completed_tasks * 100) / total_tasks.
Snapshot(id, st, total, completed, failed, running) ==
    [outcome |-> "snapshot", id |-> id, status |-> st, total_tasks |-> total,
     completed_tasks |-> completed, failed_tasks |-> failed, running_tasks |-> running,
     progress_percentage |-> <<completed * 100, total>>]

NoSnapshot(outcome) ==
    [outcome |-> outcome, id |-> "none", status |-> "none", total_tasks |-> 0,
     completed_tasks |-> 0, failed_tasks |-> 0, running_tasks |-> 0,
     progress_percentage |-> <<0, 0>>]

NoReply == NoSnapshot("none")

\* ------------------------------------------------------------------ state
VARIABLES
    workflow,              \* w -> the submitted graph (tasks, dependencies, max_retries, executor)
    status,                \* w -> t -> task.status
    retry_count,           \* w -> t -> task.retry_count
    started_at,            \* w -> t -> task.started_at ("None" or "set")
    completed_at,          \* w -> t -> task.completed_at ("None" or "set")
    result,                \* w -> t -> task.result ("none", "ok" or "error")
    context,               \* w -> keys of workflow.context
    wf_status,             \* w -> workflow.status
    metadata,              \* w -> workflow.metadata["error"] ("none" when unset)
    active_workflows,      \* keys of engine.active_workflows
    completed_workflows,   \* keys of engine.completed_workflows
    running_tasks,         \* engine._running_tasks
    max_concurrent_tasks,
    max_concurrent_workflows,
    task_pc,               \* w -> t -> position of the task's _execute_task coroutine
    driver,                \* w -> position of the workflow's _execute_workflow coroutine
    driver_tasks,          \* w -> number of _execute_workflow coroutines created for it
    events,                \* w -> event -> number of times it was handed to the listeners
    starts,                \* w -> t -> number of times the task was set RUNNING
    notified,              \* outcome of the most recent _notify_listeners call
    task_completed_seen,   \* w -> t -> number of listeners, in registration order, that
                           \*   were called with the task's task_completed event
    ret,                   \* what the most recent API call returned or raised
    reply                  \* outcome of the most recent get_workflow_status call

vars == <<workflow, status, retry_count, started_at, completed_at, result, context, wf_status, metadata,
          active_workflows, completed_workflows, running_tasks,
          max_concurrent_tasks, max_concurrent_workflows, task_pc, driver,
          driver_tasks, events, notified, task_completed_seen, starts, ret, reply>>

config == <<workflow, max_concurrent_tasks, max_concurrent_workflows>>

TasksOf(w) == {workflow[w].tasks[i] : i \in 1..Len(workflow[w].tasks)}

Init ==
    /\ workflow \in {[w \in WorkflowIds |-> IF w = "w1" THEN g ELSE Single] : g \in Graphs}
    /\ status = [w \in WorkflowIds |-> [t \in TaskIds |-> PENDING]]
    /\ retry_count = [w \in WorkflowIds |-> [t \in TaskIds |-> 0]]
    /\ started_at = [w \in WorkflowIds |-> [t \in TaskIds |-> "None"]]
    /\ completed_at = [w \in WorkflowIds |-> [t \in TaskIds |-> "None"]]
    /\ result = [w \in WorkflowIds |-> [t \in TaskIds |-> "none"]]
    /\ context = [w \in WorkflowIds |-> {}]
    /\ wf_status = [w \in WorkflowIds |-> CREATED]
    /\ metadata = [w \in WorkflowIds |-> "none"]
    /\ active_workflows = {}
    /\ completed_workflows = {}
    /\ running_tasks = 0
    /\ max_concurrent_tasks \in 1..MaxTasksLimit
    /\ max_concurrent_workflows \in 1..Cardinality(WorkflowIds)
    /\ task_pc = [w \in WorkflowIds |-> [t \in TaskIds |-> "idle"]]
    /\ driver = [w \in WorkflowIds |-> "none"]
    /\ driver_tasks = [w \in WorkflowIds |-> 0]
    /\ events = [w \in WorkflowIds |-> [e \in EventNames |-> 0]]
    /\ starts = [w \in WorkflowIds |-> [t \in TaskIds |-> 0]]
    /\ notified = [invoked |-> << >>, escaped |-> FALSE]
    /\ task_completed_seen = [w \in WorkflowIds |-> [t \in TaskIds |-> 0]]
    /\ ret = "none"
    /\ reply = NoReply

\* The loop of _notify_listeners from listener i on: each listener is awaited
\* inside try/except Exception, so a raising listener is logged and the loop
\* goes on.  The value is the listeners invoked, in order, and whether an
\* exception left the function.
RECURSIVE NotifyFrom(_)

NotifyFrom_NoExcept(i) ==
    IF i > Len(workflow_listeners)
    THEN [invoked |-> << >>, escaped |-> FALSE]
    ELSE IF workflow_listeners[i] = "raises"
    THEN [invoked |-> <<i>>, escaped |-> TRUE]
    ELSE [invoked |-> <<i>> \o NotifyFrom(i + 1).invoked,
          escaped |-> NotifyFrom(i + 1).escaped]

NotifyFrom(i) ==
    IF i > Len(workflow_listeners)
    THEN [invoked |-> << >>, escaped |-> FALSE]
    ELSE [invoked |-> <<i>> \o NotifyFrom(i + 1).invoked,
          escaped |-> NotifyFrom(i + 1).escaped]

\* The listener the loop of _notify_listeners calls before its first await
\* can suspend (0 with no listener registered).
FirstListener == IF workflow_listeners = << >> THEN 0 ELSE 1

\* One _notify_listeners call.
Notify == notified' = NotifyFrom(1)

\* _notify_listeners(event, workflow): one more call with this event.
Emit(w, e) == [events EXCEPT ![w][e] = @ + 1]

\* ------------------------------------------------------- pure computations
\* len([t for t in workflow.tasks if t.status == s])
CountTasks(w, s) ==
    Len(SelectSeq(workflow[w].tasks, LAMBDA t : status[w][t] = s))

\* The dependency check of _get_ready_tasks: every dependency id names a task
\* of the workflow and that task is COMPLETED.
DependenciesMet_SkipsUnknownIds(w, t) ==
    \A d \in workflow[w].dependencies[t] :
        d \in TasksOf(w) => status[w][d] = COMPLETED

DependenciesMet(w, t) ==
    \A d \in workflow[w].dependencies[t] :
        /\ d \in TasksOf(w)
        /\ status[w][d] = COMPLETED

IsReady_TakesFailed(w, t) ==
    status[w][t] \in {PENDING, FAILED} /\ DependenciesMet(w, t)

IsReady_IgnoresDependencies(w, t) == status[w][t] = PENDING

IsReady(w, t) == status[w][t] = PENDING /\ DependenciesMet(w, t)

\* _get_ready_tasks: the ready tasks in declaration order.
ReadyTasks(w) == SelectSeq(workflow[w].tasks, LAMBDA t : IsReady(w, t))

IsWorkflowComplete_CountsFailed(w) ==
    \A t \in TasksOf(w) : status[w][t] \in {COMPLETED, FAILED}

IsWorkflowComplete(w) == \A t \in TasksOf(w) : status[w][t] = COMPLETED

IsWorkflowStuck_NeedsFailedTask(w) ==
    /\ \E t \in TasksOf(w) : status[w][t] = PENDING
    /\ \E t \in TasksOf(w) : status[w][t] = FAILED
    /\ ~ \E t \in TasksOf(w) : status[w][t] = RUNNING

IsWorkflowStuck(w) ==
    /\ \E t \in TasksOf(w) : status[w][t] = PENDING
    /\ ~ \E t \in TasksOf(w) : status[w][t] = RUNNING

PySlice_DropsLast(seq, n) ==
    IF n - 1 >= 0
    THEN SubSeq(seq, 1, IF n - 1 < Len(seq) THEN n - 1 ELSE Len(seq))
    ELSE SubSeq(seq, 1, IF Len(seq) + n - 1 > 0 THEN Len(seq) + n - 1 ELSE 0)

\* Python's seq[:n]: a negative n counts from the end.
PySlice(seq, n) ==
    IF n >= 0
    THEN SubSeq(seq, 1, IF n < Len(seq) THEN n ELSE Len(seq))
    ELSE SubSeq(seq, 1, IF Len(seq) + n > 0 THEN Len(seq) + n ELSE 0)

TasksToExecute_TakesLast(w) ==
    LET ready == ReadyTasks(w)
        n == Len(PySlice(ready, max_concurrent_tasks - running_tasks))
    IN  SubSeq(ready, Len(ready) - n + 1, Len(ready))

TasksToExecute(w) == PySlice(ReadyTasks(w), max_concurrent_tasks - running_tasks)

SeqToSet(seq) == {seq[i] : i \in 1..Len(seq)}

\* ---------------------------------------------------------------- API calls
CreateWorkflow_AdmitsAtLimit(w) ==
    /\ w \notin active_workflows \cup completed_workflows
    /\ IF Cardinality(active_workflows) > max_concurrent_workflows
       THEN /\ ret' = "RuntimeError: Maximum concurrent workflows reached"
            /\ UNCHANGED <<active_workflows, events, notified>>
       ELSE /\ active_workflows' = active_workflows \cup {w}
            /\ events' = Emit(w, "workflow_created")
            /\ Notify
            /\ ret' = w
    /\ UNCHANGED <<config, task_completed_seen, started_at, completed_at, driver_tasks, reply, status, retry_count, result, context, wf_status, metadata,
                   completed_workflows, running_tasks, task_pc, driver, starts>>

CreateWorkflow_RegistersBeforeCheck(w) ==
    /\ w \notin active_workflows \cup completed_workflows
    /\ active_workflows' = active_workflows \cup {w}
    /\ IF Cardinality(active_workflows) >= max_concurrent_workflows
       THEN /\ ret' = "RuntimeError: Maximum concurrent workflows reached"
            /\ UNCHANGED <<events, notified>>
       ELSE /\ events' = Emit(w, "workflow_created")
            /\ Notify
            /\ ret' = w
    /\ UNCHANGED <<config, task_completed_seen, started_at, completed_at, driver_tasks, reply, status, retry_count, result, context, wf_status, metadata,
                   completed_workflows, running_tasks, task_pc, driver, starts>>

\* create_workflow: each workflow object is submitted once.
CreateWorkflow(w) ==
    /\ w \notin active_workflows \cup completed_workflows
    /\ IF Cardinality(active_workflows) >= max_concurrent_workflows
       THEN /\ ret' = "RuntimeError: Maximum concurrent workflows reached"
            /\ UNCHANGED <<active_workflows, events, notified>>
       ELSE /\ active_workflows' = active_workflows \cup {w}
            /\ events' = Emit(w, "workflow_created")
            /\ Notify
            /\ ret' = w
    /\ UNCHANGED <<config, task_completed_seen, started_at, completed_at, driver_tasks, reply, status, retry_count, result, context, wf_status, metadata,
                   completed_workflows, running_tasks, task_pc, driver, starts>>

StartWorkflow_SkipsStateCheck(w) ==
    /\ IF w \notin active_workflows
       THEN /\ ret' = "ValueError: not found"
            /\ UNCHANGED <<wf_status, events, notified, driver, driver_tasks>>
       ELSE /\ wf_status' = [wf_status EXCEPT ![w] = RUNNING]
            /\ events' = Emit(w, "workflow_started")
            /\ Notify
            /\ driver' = [driver EXCEPT ![w] = "sleeping"]
            /\ driver_tasks' = [driver_tasks EXCEPT ![w] = @ + 1]
            /\ ret' = "True"
    /\ UNCHANGED <<config, task_completed_seen, started_at, completed_at, reply, status, retry_count, result, context, metadata,
                   active_workflows, completed_workflows, running_tasks, task_pc, starts>>

\* start_workflow: the driver coroutine is created and makes its first pass later.
StartWorkflow(w) ==
    /\ IF w \notin active_workflows
       THEN /\ ret' = "ValueError: not found"
            /\ UNCHANGED <<wf_status, events, notified, driver, driver_tasks>>
       ELSE IF wf_status[w] # CREATED
       THEN /\ ret' = "RuntimeError: not in created state"
            /\ UNCHANGED <<wf_status, events, notified, driver, driver_tasks>>
       ELSE /\ wf_status' = [wf_status EXCEPT ![w] = RUNNING]
            /\ events' = Emit(w, "workflow_started")
            /\ Notify
            /\ driver' = [driver EXCEPT ![w] = "sleeping"]
            /\ driver_tasks' = [driver_tasks EXCEPT ![w] = @ + 1]
            /\ ret' = "True"
    /\ UNCHANGED <<config, task_completed_seen, started_at, completed_at, reply, status, retry_count, result, context, metadata,
                   active_workflows, completed_workflows, running_tasks, task_pc, starts>>

CancelWorkflow_CancelsEveryTask(w) ==
    /\ IF w \notin active_workflows
       THEN /\ ret' = "False"
            /\ UNCHANGED <<wf_status, status, completed_at, active_workflows,
                           completed_workflows, events, notified>>
       ELSE /\ wf_status' = [wf_status EXCEPT ![w] = CANCELLED]
            /\ status' = [status EXCEPT ![w] =
                            [t \in TaskIds |->
                               IF t \in TasksOf(w) THEN CANCELLED ELSE status[w][t]]]
            /\ completed_at' = [completed_at EXCEPT ![w] =
                                  [t \in TaskIds |->
                                     IF t \in TasksOf(w) THEN "set" ELSE completed_at[w][t]]]
            /\ completed_workflows' = completed_workflows \cup {w}
            /\ active_workflows' = active_workflows \ {w}
            /\ events' = Emit(w, "workflow_cancelled")
            /\ Notify
            /\ ret' = "True"
    /\ UNCHANGED <<config, task_completed_seen, started_at, driver_tasks, reply, retry_count, result, context, metadata,
                   running_tasks, task_pc, driver, starts>>

CancelWorkflow_LooksInBothCollections(w) ==
    /\ IF w \notin active_workflows \cup completed_workflows
       THEN /\ ret' = "False"
            /\ UNCHANGED <<wf_status, status, completed_at, active_workflows,
                           completed_workflows, events, notified>>
       ELSE /\ wf_status' = [wf_status EXCEPT ![w] = CANCELLED]
            /\ status' = [status EXCEPT ![w] =
                            [t \in TaskIds |->
                               IF t \in TasksOf(w) /\ status[w][t] = RUNNING
                               THEN CANCELLED ELSE status[w][t]]]
            /\ completed_at' = [completed_at EXCEPT ![w] =
                                  [t \in TaskIds |->
                                     IF t \in TasksOf(w) /\ status[w][t] = RUNNING
                                     THEN "set" ELSE completed_at[w][t]]]
            /\ completed_workflows' = completed_workflows \cup {w}
            /\ active_workflows' = active_workflows \ {w}
            /\ events' = Emit(w, "workflow_cancelled")
            /\ Notify
            /\ ret' = "True"
    /\ UNCHANGED <<config, task_completed_seen, started_at, driver_tasks, reply, retry_count, result, context, metadata,
                   running_tasks, task_pc, driver, starts>>

CancelWorkflow_LeavesRunningTasks(w) ==
    /\ IF w \notin active_workflows
       THEN /\ ret' = "False"
            /\ UNCHANGED <<wf_status, active_workflows, completed_workflows, events, notified>>
       ELSE /\ wf_status' = [wf_status EXCEPT ![w] = CANCELLED]
            /\ completed_workflows' = completed_workflows \cup {w}
            /\ active_workflows' = active_workflows \ {w}
            /\ events' = Emit(w, "workflow_cancelled")
            /\ Notify
            /\ ret' = "True"
    /\ UNCHANGED <<config, task_completed_seen, started_at, completed_at, driver_tasks, reply, status, retry_count, result, context, metadata, running_tasks,
                   task_pc, driver, starts>>

CancelWorkflow_KeepsActive(w) ==
    /\ IF w \notin active_workflows
       THEN /\ ret' = "False"
            /\ UNCHANGED <<wf_status, status, completed_at, active_workflows,
                           completed_workflows, events, notified>>
       ELSE /\ wf_status' = [wf_status EXCEPT ![w] = CANCELLED]
            /\ status' = [status EXCEPT ![w] =
                            [t \in TaskIds |->
                               IF t \in TasksOf(w) /\ status[w][t] = RUNNING
                               THEN CANCELLED ELSE status[w][t]]]
            /\ completed_at' = [completed_at EXCEPT ![w] =
                                  [t \in TaskIds |->
                                     IF t \in TasksOf(w) /\ status[w][t] = RUNNING
                                     THEN "set" ELSE completed_at[w][t]]]
            /\ completed_workflows' = completed_workflows \cup {w}
            /\ UNCHANGED active_workflows
            /\ events' = Emit(w, "workflow_cancelled")
            /\ Notify
            /\ ret' = "True"
    /\ UNCHANGED <<config, task_completed_seen, started_at, driver_tasks, reply, retry_count, result, context, metadata, running_tasks,
                   task_pc, driver, starts>>

\* cancel_workflow.
CancelWorkflow(w) ==
    /\ IF w \notin active_workflows
       THEN /\ ret' = "False"
            /\ UNCHANGED <<wf_status, status, completed_at, active_workflows,
                           completed_workflows, events, notified>>
       ELSE /\ wf_status' = [wf_status EXCEPT ![w] = CANCELLED]
            /\ status' = [status EXCEPT ![w] =
                            [t \in TaskIds |->
                               IF t \in TasksOf(w) /\ status[w][t] = RUNNING
                               THEN CANCELLED ELSE status[w][t]]]
            /\ completed_at' = [completed_at EXCEPT ![w] =
                                  [t \in TaskIds |->
                                     IF t \in TasksOf(w) /\ status[w][t] = RUNNING
                                     THEN "set" ELSE completed_at[w][t]]]
            /\ completed_workflows' = completed_workflows \cup {w}
            /\ active_workflows' = active_workflows \ {w}
            /\ events' = Emit(w, "workflow_cancelled")
            /\ Notify
            /\ ret' = "True"
    /\ UNCHANGED <<config, task_completed_seen, started_at, driver_tasks, reply, retry_count, result, context, metadata, running_tasks,
                   task_pc, driver, starts>>

\* get_workflow_status: None for an id in neither collection; the division
\* by len(workflow.tasks) raises ZeroDivisionError for an empty task list.
GetWorkflowStatus(w) ==
    /\ reply' = IF w \notin active_workflows \cup completed_workflows
                THEN NoSnapshot("None")
                ELSE IF Len(workflow[w].tasks) = 0
                THEN NoSnapshot("ZeroDivisionError")
                ELSE Snapshot(w, wf_status[w], Len(workflow[w].tasks),
                              CountTasks(w, COMPLETED), CountTasks(w, FAILED),
                              CountTasks(w, RUNNING))
    /\ UNCHANGED <<config, task_completed_seen, started_at, completed_at, status, retry_count, result, context, wf_status, metadata,
                   active_workflows, completed_workflows, running_tasks, task_pc,
                   driver, driver_tasks, events, notified, starts, ret>>

\* ------------------------------------------------------------ driver loop
CompleteWorkflow_KeepsActive(w) ==
    /\ wf_status' = [wf_status EXCEPT ![w] = COMPLETED]
    /\ completed_workflows' = completed_workflows \cup {w}
    /\ events' = Emit(w, "workflow_completed")
    /\ Notify
    /\ driver' = [driver EXCEPT ![w] = "done"]
    /\ UNCHANGED <<metadata, active_workflows>>

\* _complete_workflow as called from the loop.  When the workflow is no longer
\* in active_workflows the del raises KeyError after the status was written;
\* the loop's except clause calls _fail_workflow(str(e)), whose del raises
\* again, and that exception leaves the coroutine.
CompleteWorkflow(w) ==
    IF w \in active_workflows
    THEN /\ wf_status' = [wf_status EXCEPT ![w] = COMPLETED]
         /\ completed_workflows' = completed_workflows \cup {w}
         /\ active_workflows' = active_workflows \ {w}
         /\ events' = Emit(w, "workflow_completed")
         /\ Notify
         /\ driver' = [driver EXCEPT ![w] = "done"]
         /\ UNCHANGED metadata
    ELSE /\ wf_status' = [wf_status EXCEPT ![w] = FAILED]
         /\ metadata' = [metadata EXCEPT ![w] = "KeyError"]
         /\ completed_workflows' = completed_workflows \cup {w}
         /\ driver' = [driver EXCEPT ![w] = "crashed"]
         /\ UNCHANGED <<active_workflows, events, notified>>

FailWorkflow_NotifiesBeforeDel(w) ==
    IF w \in active_workflows
    THEN /\ wf_status' = [wf_status EXCEPT ![w] = FAILED]
         /\ metadata' = [metadata EXCEPT ![w] = "stuck"]
         /\ completed_workflows' = completed_workflows \cup {w}
         /\ active_workflows' = active_workflows \ {w}
         /\ events' = Emit(w, "workflow_failed")
         /\ Notify
         /\ driver' = [driver EXCEPT ![w] = "done"]
    ELSE /\ wf_status' = [wf_status EXCEPT ![w] = FAILED]
         /\ metadata' = [metadata EXCEPT ![w] = "KeyError"]
         /\ completed_workflows' = completed_workflows \cup {w}
         /\ events' = Emit(w, "workflow_failed")
         /\ Notify
         /\ driver' = [driver EXCEPT ![w] = "crashed"]
         /\ UNCHANGED active_workflows

FailWorkflow_NoReason(w) ==
    IF w \in active_workflows
    THEN /\ wf_status' = [wf_status EXCEPT ![w] = FAILED]
         /\ completed_workflows' = completed_workflows \cup {w}
         /\ active_workflows' = active_workflows \ {w}
         /\ events' = Emit(w, "workflow_failed")
         /\ Notify
         /\ driver' = [driver EXCEPT ![w] = "done"]
         /\ UNCHANGED metadata
    ELSE /\ wf_status' = [wf_status EXCEPT ![w] = FAILED]
         /\ metadata' = [metadata EXCEPT ![w] = "KeyError"]
         /\ completed_workflows' = completed_workflows \cup {w}
         /\ driver' = [driver EXCEPT ![w] = "crashed"]
         /\ UNCHANGED <<active_workflows, events, notified>>

\* _fail_workflow(workflow, "Workflow is stuck - no tasks can proceed").
FailWorkflow(w) ==
    IF w \in active_workflows
    THEN /\ wf_status' = [wf_status EXCEPT ![w] = FAILED]
         /\ metadata' = [metadata EXCEPT ![w] = "stuck"]
         /\ completed_workflows' = completed_workflows \cup {w}
         /\ active_workflows' = active_workflows \ {w}
         /\ events' = Emit(w, "workflow_failed")
         /\ Notify
         /\ driver' = [driver EXCEPT ![w] = "done"]
    ELSE /\ wf_status' = [wf_status EXCEPT ![w] = FAILED]
         /\ metadata' = [metadata EXCEPT ![w] = "KeyError"]
         /\ completed_workflows' = completed_workflows \cup {w}
         /\ driver' = [driver EXCEPT ![w] = "crashed"]
         /\ UNCHANGED <<active_workflows, events, notified>>

\* The dispatch branch: one _execute_task coroutine is created per selected task.
Dispatch(w) ==
    /\ task_pc' = [task_pc EXCEPT ![w] =
                     [t \in TaskIds |->
                        IF t \in SeqToSet(TasksToExecute(w)) THEN "spawned" ELSE task_pc[w][t]]]
    /\ UNCHANGED <<wf_status, metadata, active_workflows, completed_workflows,
                   events, notified, driver>>

\* One pass of the while loop of _execute_workflow, up to its sleep.  The
\* coroutines created by the previous pass are ahead of the driver's timer in
\* the event loop, so they have started before the next pass.
ExecuteWorkflowPass(w) ==
    /\ driver[w] = "sleeping"
    /\ \A t \in TasksOf(w) : task_pc[w][t] # "spawned"
    /\ IF ReadyTasks(w) = << >>
       THEN /\ IF IsWorkflowComplete(w) THEN CompleteWorkflow(w)
               ELSE IF IsWorkflowStuck(w) THEN FailWorkflow(w)
               ELSE UNCHANGED <<wf_status, metadata, active_workflows,
                                completed_workflows, events, notified, driver>>
            /\ UNCHANGED task_pc
       ELSE Dispatch(w)
    /\ UNCHANGED <<config, task_completed_seen, started_at, completed_at, driver_tasks, reply, status, retry_count, result, context, running_tasks,
                   starts, ret>>

\* ------------------------------------------------------------ _execute_task
\* First step of the coroutine: counter, status RUNNING, then it waits in the
\* task_started listeners and the executor call.
TaskStart(w, t) ==
    /\ t \in TasksOf(w)
    /\ task_pc[w][t] = "spawned"
    /\ running_tasks' = running_tasks + 1
    /\ status' = [status EXCEPT ![w][t] = RUNNING]
    /\ started_at' = [started_at EXCEPT ![w][t] = "set"]
    /\ starts' = [starts EXCEPT ![w][t] = @ + 1]
    /\ task_pc' = [task_pc EXCEPT ![w][t] = "executing"]
    /\ Notify
    /\ UNCHANGED <<config, task_completed_seen, completed_at, driver_tasks, reply, retry_count, result, context, wf_status, metadata,
                   active_workflows, completed_workflows, driver, events, ret>>

ExecutorReturns_NoContextWrite(w, t) ==
    /\ t \in TasksOf(w)
    /\ task_pc[w][t] = "executing"
    /\ workflow[w].executor[t] = "registered"
    /\ result' = [result EXCEPT ![w][t] = "ok"]
    /\ status' = [status EXCEPT ![w][t] = COMPLETED]
    /\ completed_at' = [completed_at EXCEPT ![w][t] = "set"]
    /\ task_pc' = [task_pc EXCEPT ![w][t] = "notify_completed"]
    /\ Notify
    /\ task_completed_seen' = [task_completed_seen EXCEPT ![w][t] = FirstListener]
    /\ UNCHANGED <<config, started_at, driver_tasks, reply, retry_count, context, wf_status, metadata, active_workflows,
                   completed_workflows, running_tasks, driver, events, starts, ret>>

\* The executor returns: result, status and context are written, then the
\* coroutine waits in the task_completed listeners.
ExecutorReturns(w, t) ==
    /\ t \in TasksOf(w)
    /\ task_pc[w][t] = "executing"
    /\ workflow[w].executor[t] = "registered"
    /\ result' = [result EXCEPT ![w][t] = "ok"]
    /\ status' = [status EXCEPT ![w][t] = COMPLETED]
    /\ completed_at' = [completed_at EXCEPT ![w][t] = "set"]
    /\ context' = [context EXCEPT ![w] = @ \cup {t}]
    /\ task_pc' = [task_pc EXCEPT ![w][t] = "notify_completed"]
    /\ Notify
    /\ task_completed_seen' = [task_completed_seen EXCEPT ![w][t] = FirstListener]
    /\ UNCHANGED <<config, started_at, driver_tasks, reply, retry_count, wf_status, metadata, active_workflows,
                   completed_workflows, running_tasks, driver, events, starts, ret>>

ExecutorRaises_WritesContext(w, t) ==
    /\ t \in TasksOf(w)
    /\ task_pc[w][t] = "executing"
    /\ result' = [result EXCEPT ![w][t] = "error"]
    /\ status' = [status EXCEPT ![w][t] = FAILED]
    /\ completed_at' = [completed_at EXCEPT ![w][t] = "set"]
    /\ context' = [context EXCEPT ![w] = @ \cup {t}]
    /\ task_pc' = [task_pc EXCEPT ![w][t] = "notify_failed"]
    /\ Notify
    /\ UNCHANGED <<config, task_completed_seen, started_at, driver_tasks, reply, retry_count, wf_status, metadata,
                   active_workflows, completed_workflows, running_tasks, driver, events,
                   starts, ret>>

\* The executor raises, or _execute_with_agent raises because no agent of the
\* task's type exists: the except clause records the failure, then the
\* coroutine waits in the task_failed listeners.
ExecutorRaises(w, t) ==
    /\ t \in TasksOf(w)
    /\ task_pc[w][t] = "executing"
    /\ result' = [result EXCEPT ![w][t] = "error"]
    /\ status' = [status EXCEPT ![w][t] = FAILED]
    /\ completed_at' = [completed_at EXCEPT ![w][t] = "set"]
    /\ task_pc' = [task_pc EXCEPT ![w][t] = "notify_failed"]
    /\ Notify
    /\ UNCHANGED <<config, task_completed_seen, started_at, driver_tasks, reply, retry_count, context, wf_status, metadata, active_workflows,
                   completed_workflows, running_tasks, driver, events, starts, ret>>

\* After the task_completed listeners, the last of which has been called by
\* now: the finally clause.
TaskCompletedEnd(w, t) ==
    /\ t \in TasksOf(w)
    /\ task_pc[w][t] = "notify_completed"
    /\ running_tasks' = running_tasks - 1
    /\ task_pc' = [task_pc EXCEPT ![w][t] = "idle"]
    /\ task_completed_seen' = [task_completed_seen EXCEPT ![w][t] = Len(workflow_listeners)]
    /\ UNCHANGED <<config, started_at, completed_at, driver_tasks, reply, status, retry_count, result, context, wf_status, metadata,
                   active_workflows, completed_workflows, driver, events, notified, starts, ret>>

ShouldRetry_OffByOne(w, t) == retry_count[w][t] <= workflow[w].max_retries[t]

\* The retry decision of the except clause.
ShouldRetry(w, t) == retry_count[w][t] < workflow[w].max_retries[t]

TaskFailedEnd_RetrySkipsDecrement(w, t) ==
    /\ t \in TasksOf(w)
    /\ task_pc[w][t] = "notify_failed"
    /\ IF ShouldRetry(w, t)
       THEN /\ retry_count' = [retry_count EXCEPT ![w][t] = @ + 1]
            /\ status' = [status EXCEPT ![w][t] = PENDING]
            /\ started_at' = [started_at EXCEPT ![w][t] = "None"]
            /\ completed_at' = [completed_at EXCEPT ![w][t] = "None"]
            /\ UNCHANGED running_tasks
       ELSE /\ running_tasks' = running_tasks - 1
            /\ UNCHANGED <<retry_count, status, started_at, completed_at>>
    /\ task_pc' = [task_pc EXCEPT ![w][t] = "idle"]
    /\ UNCHANGED <<config, task_completed_seen, driver_tasks, reply, result, context,
                   wf_status, metadata, active_workflows, completed_workflows, driver,
                   events, notified, starts, ret>>

TaskFailedEnd_KeepsTimestamps(w, t) ==
    /\ t \in TasksOf(w)
    /\ task_pc[w][t] = "notify_failed"
    /\ IF ShouldRetry(w, t)
       THEN /\ retry_count' = [retry_count EXCEPT ![w][t] = @ + 1]
            /\ status' = [status EXCEPT ![w][t] = PENDING]
       ELSE UNCHANGED <<retry_count, status>>
    /\ running_tasks' = running_tasks - 1
    /\ task_pc' = [task_pc EXCEPT ![w][t] = "idle"]
    /\ UNCHANGED <<config, task_completed_seen, started_at, completed_at, driver_tasks, reply, result, context,
                   wf_status, metadata, active_workflows, completed_workflows, driver,
                   events, notified, starts, ret>>

\* After the task_failed listeners: the retry decision, then the finally clause.
TaskFailedEnd(w, t) ==
    /\ t \in TasksOf(w)
    /\ task_pc[w][t] = "notify_failed"
    /\ IF ShouldRetry(w, t)
       THEN /\ retry_count' = [retry_count EXCEPT ![w][t] = @ + 1]
            /\ status' = [status EXCEPT ![w][t] = PENDING]
            /\ started_at' = [started_at EXCEPT ![w][t] = "None"]
            /\ completed_at' = [completed_at EXCEPT ![w][t] = "None"]
       ELSE UNCHANGED <<retry_count, status, started_at, completed_at>>
    /\ running_tasks' = running_tasks - 1
    /\ task_pc' = [task_pc EXCEPT ![w][t] = "idle"]
    /\ UNCHANGED <<config, task_completed_seen, driver_tasks, reply, result, context, wf_status, metadata, active_workflows,
                   completed_workflows, driver, events, notified, starts, ret>>

\* ---------------------------------------------------------- specification
Next ==
    \/ \E w \in WorkflowIds : CreateWorkflow(w)
    \/ \E w \in WorkflowIds : StartWorkflow(w)
    \/ \E w \in WorkflowIds : CancelWorkflow(w)
    \/ \E w \in WorkflowIds : ExecuteWorkflowPass(w)
    \/ \E w \in WorkflowIds, t \in TaskIds : TaskStart(w, t)
    \/ \E w \in WorkflowIds, t \in TaskIds : ExecutorReturns(w, t)
    \/ \E w \in WorkflowIds, t \in TaskIds : ExecutorRaises(w, t)
    \/ \E w \in WorkflowIds, t \in TaskIds : TaskCompletedEnd(w, t)
    \/ \E w \in WorkflowIds, t \in TaskIds : TaskFailedEnd(w, t)

Spec == Init /\ [][Next]_vars

\* Fairness of the event loop: a created coroutine starts, a sleeping driver
\* wakes, listeners return, and (the claims' proviso) every executor call
\* returns or raises.  API calls are up to the caller.
Fairness ==
    /\ \A w \in WorkflowIds : WF_vars(ExecuteWorkflowPass(w))
    /\ \A w \in WorkflowIds, t \in TaskIds :
          /\ WF_vars(TaskStart(w, t))
          /\ WF_vars(ExecutorReturns(w, t) \/ ExecutorRaises(w, t))
          /\ WF_vars(TaskCompletedEnd(w, t))
          /\ WF_vars(TaskFailedEnd(w, t))

FairSpec == Spec /\ Fairness

\* The engine together with callers that poll get_workflow_status.
StatusNext ==
    \/ Next
    \/ \E w \in WorkflowIds : GetWorkflowStatus(w)

\* The query reads neither ceiling, so both are fixed at their largest value.
StatusInit ==
    /\ Init
    /\ max_concurrent_tasks = MaxTasksLimit
    /\ max_concurrent_workflows = Cardinality(WorkflowIds)

StatusSpec == StatusInit /\ [][StatusNext]_vars

\* ------------------------------------------------------------------ claims
Terminal == {COMPLETED, FAILED, CANCELLED}

Tasks == {<<w, t>> \in WorkflowIds \X TaskIds : t \in TasksOf(w)}

\* C1: whenever a workflow's status is COMPLETED every one of its tasks is
\* COMPLETED (so none is PENDING or RUNNING).
C1_CompletedMeansAllTasksCompleted ==
    \A w \in WorkflowIds :
        wf_status[w] = COMPLETED =>
            \A t \in TasksOf(w) : status[w][t] = COMPLETED

C1_Witness ==
    /\ workflow["w1"] = Chain
    /\ wf_status["w1"] = COMPLETED
    /\ retry_count["w1"]["b"] = 1

\* C2: a step that sets a task RUNNING is taken only when every dependency id
\* of the task names a task of the workflow whose status is COMPLETED, on the
\* first dispatch and on every dispatch after a retry.
C2_RunningOnlyWithDependenciesCompleted ==
    [][\A p \in Tasks :
          (status[p[1]][p[2]] # RUNNING /\ status'[p[1]][p[2]] = RUNNING) =>
              \A d \in workflow[p[1]].dependencies[p[2]] :
                  /\ d \in TasksOf(p[1])
                  /\ status[p[1]][d] = COMPLETED
                  /\ status'[p[1]][d] = COMPLETED]_vars

C2_Witness ==
    /\ workflow["w1"] = Chain
    /\ status["w1"]["b"] = RUNNING
    /\ retry_count["w1"]["b"] = 1
    /\ starts["w1"]["b"] = 2

\* C3: the number of tasks with status RUNNING, over all workflows, is at
\* most max_concurrent_tasks.
RunningCount == Cardinality({p \in Tasks : status[p[1]][p[2]] = RUNNING})

C3_RunningWithinCeiling == RunningCount <= max_concurrent_tasks

\* C4: in a workflow that was never cancelled, once the driver loop has ended
\* a task that was dispatched and whose executor raised on every call has
\* gone PENDING -> RUNNING -> FAILED exactly max_retries + 1 times and is
\* FAILED with retry_count equal to max_retries.
C4_AlwaysRaisingTaskExhaustsRetries ==
    \A p \in Tasks :
        (/\ events[p[1]]["workflow_cancelled"] = 0
         /\ driver[p[1]] = "done"
         /\ task_pc[p[1]][p[2]] = "idle"
         /\ starts[p[1]][p[2]] >= 1
         /\ result[p[1]][p[2]] = "error") =>
            /\ status[p[1]][p[2]] = FAILED
            /\ starts[p[1]][p[2]] = workflow[p[1]].max_retries[p[2]] + 1
            /\ retry_count[p[1]][p[2]] = workflow[p[1]].max_retries[p[2]]

\* C4, the part that holds of the retry code: a task is set RUNNING at most
\* max_retries + 1 times; when it is at rest in FAILED it was set RUNNING
\* exactly max_retries + 1 times and retry_count equals max_retries; from
\* then on it stays FAILED and is never dispatched again.
PermanentlyFailed(w, t) == status[w][t] = FAILED /\ task_pc[w][t] = "idle"

C4_RetryBound ==
    /\ [](\A p \in Tasks :
            /\ starts[p[1]][p[2]] <= workflow[p[1]].max_retries[p[2]] + 1
            /\ retry_count[p[1]][p[2]] <= workflow[p[1]].max_retries[p[2]]
            /\ PermanentlyFailed(p[1], p[2]) =>
                 /\ retry_count[p[1]][p[2]] = workflow[p[1]].max_retries[p[2]]
                 /\ starts[p[1]][p[2]] = workflow[p[1]].max_retries[p[2]] + 1)
    /\ [][\A p \in Tasks :
            PermanentlyFailed(p[1], p[2]) =>
                /\ status'[p[1]][p[2]] = FAILED
                /\ task_pc'[p[1]][p[2]] = "idle"
                /\ starts'[p[1]][p[2]] = starts[p[1]][p[2]]]_vars

C4_Witness ==
    /\ workflow["w1"] = Chain
    /\ PermanentlyFailed("w1", "b")
    /\ starts["w1"]["b"] = MaxRetries + 1
    /\ retry_count["w1"]["b"] = MaxRetries
    /\ driver["w1"] = "sleeping"

\* C5: a task with a dependency id that names no task of its workflow is
\* never dispatched, and once such a workflow is started it eventually has
\* status FAILED.
HasMissingDependency(w, t) == \E d \in workflow[w].dependencies[t] : d \notin TasksOf(w)

C5_MissingDependencyFails ==
    /\ [](\A p \in Tasks :
            HasMissingDependency(p[1], p[2]) =>
                /\ starts[p[1]][p[2]] = 0
                /\ status[p[1]][p[2]] = PENDING
                /\ task_pc[p[1]][p[2]] = "idle")
    /\ \A w \in WorkflowIds :
          ((\E t \in TasksOf(w) : HasMissingDependency(w, t)) /\ driver[w] = "sleeping")
              ~> (wf_status[w] = FAILED)

C5_Witness ==
    /\ workflow["w1"] = MissingDependency
    /\ wf_status["w1"] = FAILED
    /\ metadata["w1"] = "stuck"
    /\ status["w1"]["a"] = COMPLETED
    /\ status["w1"]["b"] = PENDING

\* C6: a cancel_workflow call on a workflow of the active collection sets the
\* workflow CANCELLED and every RUNNING task CANCELLED, moves the workflow
\* from the active to the completed collection, emits workflow_cancelled and
\* returns True, all in the one step.
C6_CancelActiveWorkflow ==
    [][\A w \in WorkflowIds :
          (w \in active_workflows /\ CancelWorkflow(w)) =>
              /\ wf_status'[w] = CANCELLED
              /\ \A t \in TasksOf(w) :
                    status[w][t] = RUNNING => status'[w][t] = CANCELLED
              /\ w \notin active_workflows'
              /\ w \in completed_workflows'
              /\ events'[w]["workflow_cancelled"] = events[w]["workflow_cancelled"] + 1
              /\ ret' = "True"]_vars

C6_Witness ==
    /\ workflow["w1"] = FanIn
    /\ wf_status["w1"] = CANCELLED
    /\ ret = "True"
    /\ status["w1"]["a"] = COMPLETED
    /\ status["w1"]["b"] = CANCELLED
    /\ status["w1"]["c"] = PENDING
    /\ "w1" \in completed_workflows /\ "w1" \notin active_workflows

\* C7: a task with status CANCELLED keeps that status, and its result and the
\* workflow context stay as they were, in every later step.
C7_CancelledTaskStaysCancelled ==
    [][\A p \in Tasks :
          status[p[1]][p[2]] = CANCELLED =>
              /\ status'[p[1]][p[2]] = CANCELLED
              /\ result'[p[1]][p[2]] = result[p[1]][p[2]]
              /\ p[2] \notin context'[p[1]]]_vars

\* C8: once a workflow has a terminal status and is in the completed
\* collection, a PENDING task of it for which no coroutine exists yet is not
\* dispatched: no coroutine is created for it and it is not set RUNNING.
C8_NoDispatchAfterTerminal ==
    [][\A p \in Tasks :
          (/\ wf_status[p[1]] \in Terminal
           /\ p[1] \in completed_workflows
           /\ status[p[1]][p[2]] = PENDING
           /\ task_pc[p[1]][p[2]] = "idle") =>
              /\ task_pc'[p[1]][p[2]] = "idle"
              /\ status'[p[1]][p[2]] # RUNNING]_vars

\* C9: once a workflow's status is COMPLETED, FAILED or CANCELLED it never
\* changes again.
C9_TerminalStatusIsFinal ==
    [][\A w \in WorkflowIds :
          wf_status[w] \in Terminal => wf_status'[w] = wf_status[w]]_vars

\* C10: every started workflow eventually has a terminal status with its
\* driver loop ended.
C10_StartedWorkflowTerminates ==
    \A w \in WorkflowIds :
        (driver[w] = "sleeping")
            ~> (wf_status[w] \in Terminal /\ driver[w] \in {"done", "crashed"})

\* C11: an executor call never lasts for ever, whether or not the executor
\* returns: a task that is RUNNING in its executor call eventually leaves the
\* call (by the executor's return or exception, or by the task's timeout
\* expiring, which records the task FAILED and takes the retry path).
\* HangSpec is the engine with an executor that need not return: the event
\* loop is fair to every engine coroutine, and no step of _execute_task reads
\* task.timeout or ends the wait for the executor.
HangFairness ==
    /\ \A w \in WorkflowIds : WF_vars(ExecuteWorkflowPass(w))
    /\ \A w \in WorkflowIds, t \in TaskIds :
          /\ WF_vars(TaskStart(w, t))
          /\ WF_vars(TaskCompletedEnd(w, t))
          /\ WF_vars(TaskFailedEnd(w, t))

HangSpec == Spec /\ HangFairness

C11_TimeoutEndsExecutorCall ==
    \A w \in WorkflowIds, t \in TaskIds :
        (t \in TasksOf(w) /\ status[w][t] = RUNNING /\ task_pc[w][t] = "executing")
            ~> (task_pc[w][t] # "executing")

\* C12: while a started workflow has not been cancelled, once every task of
\* it is COMPLETED the driver eventually sets the workflow COMPLETED, moves
\* it from the active to the completed collection, emits workflow_completed
\* and ends its loop; workflow_completed is never emitted twice and an ended
\* loop stays ended.
C12_AllTasksCompletedLeadsToCompleted ==
    /\ [](\A w \in WorkflowIds : events[w]["workflow_completed"] <= 1)
    /\ [][\A w \in WorkflowIds : driver[w] = "done" => driver'[w] = "done"]_vars
    /\ \A w \in WorkflowIds :
          (/\ driver[w] = "sleeping"
           /\ events[w]["workflow_cancelled"] = 0
           /\ \A t \in TasksOf(w) : status[w][t] = COMPLETED)
              ~> (\/ events[w]["workflow_cancelled"] > 0
                  \/ /\ wf_status[w] = COMPLETED
                     /\ w \in completed_workflows
                     /\ w \notin active_workflows
                     /\ events[w]["workflow_completed"] = 1
                     /\ driver[w] = "done")

C12_Witness ==
    /\ workflow["w1"] = FanIn
    /\ wf_status["w1"] = COMPLETED
    /\ events["w1"] = [e \in EventNames |-> IF e = "workflow_cancelled" \/ e = "workflow_failed" THEN 0 ELSE 1]
    /\ driver["w1"] = "done"
    /\ "w1" \in completed_workflows /\ "w1" \notin active_workflows

\* C13: in a workflow whose dependency ids all name tasks of the workflow and
\* whose dependency graph has no cycle, a task starts only after each of its
\* dependencies has started and written its result to the context; once
\* started, the workflow eventually is COMPLETED with exactly the task ids as
\* context keys, unless an executor raised or the workflow was cancelled.
AllDependenciesExist(w) ==
    \A t \in TasksOf(w) : workflow[w].dependencies[t] \subseteq TasksOf(w)

Acyclic(w) ==
    \E rank \in [TaskIds -> 1..Cardinality(TaskIds)] :
        \A t \in TasksOf(w) : \A d \in workflow[w].dependencies[t] : rank[d] < rank[t]

EverRaised(w) ==
    \E t \in TasksOf(w) : retry_count[w][t] > 0 \/ result[w][t] = "error"

C13_WellFormedWorkflowCompletes ==
    /\ [](\A w \in WorkflowIds :
            (AllDependenciesExist(w) /\ Acyclic(w)) =>
                /\ \A t \in TasksOf(w) :
                      starts[w][t] >= 1 =>
                          \A d \in workflow[w].dependencies[t] :
                              starts[w][d] >= 1 /\ d \in context[w]
                /\ wf_status[w] = COMPLETED => context[w] = TasksOf(w))
    /\ \A w \in WorkflowIds :
          (driver[w] = "sleeping" /\ AllDependenciesExist(w) /\ Acyclic(w))
              ~> (\/ wf_status[w] = COMPLETED /\ context[w] = TasksOf(w)
                  \/ EverRaised(w)
                  \/ events[w]["workflow_cancelled"] > 0)

C13_Witness ==
    /\ workflow["w1"] = Chain
    /\ wf_status["w1"] = COMPLETED
    /\ context["w1"] = {"a", "b", "c"}
    /\ \A t \in TaskIds : starts["w1"][t] = 1 /\ retry_count["w1"][t] = 0
    /\ events["w1"]["workflow_cancelled"] = 0

\* C14: in the step in which a task starts executing, the workflow context
\* holds the result of every dependency of the task, before and after the
\* step (the executor is handed that context).
C14_ContextHoldsDependencyResults ==
    [][\A p \in Tasks :
          (task_pc[p[1]][p[2]] # "executing" /\ task_pc'[p[1]][p[2]] = "executing") =>
              \A d \in workflow[p[1]].dependencies[p[2]] :
                  /\ result[p[1]][d] = "ok"
                  /\ d \in context[p[1]]
                  /\ d \in context'[p[1]]]_vars

C14_Witness ==
    /\ workflow["w1"] = FanIn
    /\ task_pc["w1"]["c"] = "executing"
    /\ {"a", "b"} \subseteq context["w1"]
    /\ retry_count["w1"]["a"] = 1

\* C15: a task whose executor has returned a result (on its k+1st invocation,
\* the k earlier ones having raised) is COMPLETED with retry_count equal to
\* k, and k is at most max_retries; the witness is a workflow that completed
\* after such a retry.
C15_RetryCountIsNumberOfFailures ==
    \A p \in Tasks :
        result[p[1]][p[2]] = "ok" =>
            /\ status[p[1]][p[2]] = COMPLETED
            /\ retry_count[p[1]][p[2]] = starts[p[1]][p[2]] - 1
            /\ retry_count[p[1]][p[2]] <= workflow[p[1]].max_retries[p[2]]

C15_Witness ==
    /\ workflow["w1"] = FanIn
    /\ status["w1"]["a"] = COMPLETED
    /\ starts["w1"]["a"] = MaxRetries + 1
    /\ retry_count["w1"]["a"] = MaxRetries
    /\ wf_status["w1"] = COMPLETED

\* C16: a create_workflow call made while the active collection holds
\* max_concurrent_workflows or more workflows raises, leaves both collections
\* and every workflow as they were and emits no event; any other
\* create_workflow call adds the workflow to the active collection in status
\* CREATED, emits workflow_created once and returns the workflow's id.
C16_CreateWorkflowAdmission ==
    [][\A w \in WorkflowIds :
          (w \notin active_workflows \cup completed_workflows /\ CreateWorkflow(w)) =>
              IF Cardinality(active_workflows) >= max_concurrent_workflows
              THEN /\ ret' = "RuntimeError: Maximum concurrent workflows reached"
                   /\ active_workflows' = active_workflows
                   /\ completed_workflows' = completed_workflows
                   /\ wf_status' = wf_status
                   /\ events' = events
              ELSE /\ ret' = w
                   /\ active_workflows' = active_workflows \cup {w}
                   /\ completed_workflows' = completed_workflows
                   /\ wf_status'[w] = CREATED
                   /\ events'[w]["workflow_created"] = events[w]["workflow_created"] + 1]_vars

C16_Witness ==
    /\ ret = "RuntimeError: Maximum concurrent workflows reached"
    /\ max_concurrent_workflows = 1
    /\ active_workflows = {"w1"}
    /\ "w2" \notin completed_workflows
    /\ events["w2"]["workflow_created"] = 0

\* C17: the active collection never holds more than max_concurrent_workflows
\* workflows, and never more than that many workflows have status RUNNING.
C17_WorkflowsWithinCeiling ==
    /\ Cardinality(active_workflows) <= max_concurrent_workflows
    /\ Cardinality({w \in WorkflowIds : wf_status[w] = RUNNING}) <= max_concurrent_workflows

C17_Witness ==
    /\ max_concurrent_workflows = 1
    /\ active_workflows = {"w1"}
    /\ wf_status["w1"] = RUNNING
    /\ status["w1"]["a"] = RUNNING
    /\ ret = "RuntimeError: Maximum concurrent workflows reached"

\* C18: a start_workflow call for an id that is not in the active collection
\* raises the not-found error, and one for a workflow whose status is not
\* CREATED raises the not-in-created-state error; either call changes no
\* state, emits no event and creates no driver, so no workflow ever has more
\* than one driver loop created for it.
C18_StartWorkflowRejections ==
    /\ [](\A w \in WorkflowIds : driver_tasks[w] <= 1)
    /\ [][\A w \in WorkflowIds :
            ((w \notin active_workflows \/ wf_status[w] # CREATED) /\ StartWorkflow(w)) =>
                /\ ret' = IF w \notin active_workflows
                          THEN "ValueError: not found"
                          ELSE "RuntimeError: not in created state"
                /\ UNCHANGED <<workflow, status, retry_count, started_at, completed_at,
                               result, context, wf_status,
                               metadata, active_workflows, completed_workflows,
                               running_tasks, max_concurrent_tasks,
                               max_concurrent_workflows, task_pc, driver, driver_tasks,
                               events, notified, task_completed_seen, starts>>]_vars

C18_Witness ==
    /\ ret = "RuntimeError: not in created state"
    /\ wf_status["w1"] = RUNNING
    /\ driver["w1"] = "sleeping"
    /\ driver_tasks["w1"] = 1
    /\ events["w1"]["workflow_started"] = 1

\* C19: a cancel_workflow call for an id that is not in the active collection
\* (never created, or already in the completed collection) returns False and
\* changes no workflow status, no task status and neither collection, and
\* emits no event.
C19_CancelUnknownOrFinishedWorkflow ==
    [][\A w \in WorkflowIds :
          (w \notin active_workflows /\ CancelWorkflow(w)) =>
              /\ ret' = "False"
              /\ wf_status' = wf_status
              /\ status' = status
              /\ active_workflows' = active_workflows
              /\ completed_workflows' = completed_workflows
              /\ events' = events]_vars

C19_Witness ==
    /\ ret = "False"
    /\ completed_workflows = {"w1", "w2"}
    /\ wf_status["w1"] = FAILED
    /\ wf_status["w2"] = COMPLETED
    /\ events["w1"]["workflow_cancelled"] = 0
    /\ events["w2"]["workflow_cancelled"] = 0

\* C20: a get_workflow_status call for a workflow of the active or the
\* completed collection returns a snapshot with the workflow's current status
\* and the total number of its tasks and the numbers of its COMPLETED, FAILED
\* and RUNNING tasks, whatever its task list; a call for any other id returns
\* None; no call raises.
C20_StatusSnapshotOrNone ==
    [][\A w \in WorkflowIds :
          GetWorkflowStatus(w) =>
              IF w \in active_workflows \cup completed_workflows
              THEN /\ reply'.outcome = "snapshot"
                   /\ reply'.id = w
                   /\ reply'.status = wf_status[w]
                   /\ reply'.total_tasks = Cardinality(TasksOf(w))
                   /\ reply'.completed_tasks =
                         Cardinality({t \in TasksOf(w) : status[w][t] = COMPLETED})
                   /\ reply'.failed_tasks =
                         Cardinality({t \in TasksOf(w) : status[w][t] = FAILED})
                   /\ reply'.running_tasks =
                         Cardinality({t \in TasksOf(w) : status[w][t] = RUNNING})
              ELSE reply'.outcome = "None"]_vars

\* C21: with a registered listener that raises on every event, every
\* _notify_listeners call still invokes all listeners in registration order
\* and lets no exception out, in every API call and every coroutine that
\* emits an event; so no step of the engine depends on what a listener raised.
AllListeners == [i \in 1..Len(workflow_listeners) |-> i]

C21_RaisingListenerIsContained ==
    /\ [](notified.escaped = FALSE)
    /\ [][notified' # notified => notified' = [invoked |-> AllListeners, escaped |-> FALSE]]_vars
    /\ [][(\/ events' # events
           \/ \E w \in WorkflowIds, t \in TaskIds :
                 TaskStart(w, t) \/ ExecutorReturns(w, t) \/ ExecutorRaises(w, t)) =>
              notified' = [invoked |-> AllListeners, escaped |-> FALSE]]_vars

C21_Witness ==
    /\ workflow_listeners[1] = "raises"
    /\ notified = [invoked |-> <<1, 2>>, escaped |-> FALSE]
    /\ wf_status["w1"] = COMPLETED
    /\ events["w1"]["workflow_completed"] = 1

\* C22: no workflow driver loop ends by an exception that leaves the
\* coroutine (no task coroutine can: its except clause records the failure
\* and the listeners let nothing out).
C22_NoCoroutineEndsByException ==
    \A w \in WorkflowIds : driver[w] # "crashed"

\* C23: in a workflow that was never cancelled, once the driver loop has
\* ended a dispatched task without executor and without fallback agent has
\* been attempted max_retries + 1 times, each attempt recording an error, and
\* is FAILED with retry_count equal to max_retries.
C23_TaskWithoutExecutorExhaustsRetries ==
    \A p \in Tasks :
        (/\ workflow[p[1]].executor[p[2]] = "none"
         /\ events[p[1]]["workflow_cancelled"] = 0
         /\ driver[p[1]] \in {"done", "crashed"}
         /\ task_pc[p[1]][p[2]] = "idle"
         /\ starts[p[1]][p[2]] >= 1) =>
            /\ status[p[1]][p[2]] = FAILED
            /\ result[p[1]][p[2]] = "error"
            /\ starts[p[1]][p[2]] = workflow[p[1]].max_retries[p[2]] + 1
            /\ retry_count[p[1]][p[2]] = workflow[p[1]].max_retries[p[2]]

\* C24: in the step in which the driver fails a workflow as stuck, no task of
\* the workflow is in its executor call or in its failure handling, no FAILED
\* task has a retry left, and every PENDING task has a dependency that names
\* no task or a task that is not COMPLETED.
C24_StuckOnlyWhenNothingCanProgress ==
    [][\A w \in WorkflowIds :
          (metadata[w] # "stuck" /\ metadata'[w] = "stuck") =>
              /\ \A t \in TasksOf(w) : task_pc[w][t] = "idle"
              /\ \A t \in TasksOf(w) :
                    status[w][t] = FAILED =>
                        retry_count[w][t] = workflow[w].max_retries[t]
              /\ \A t \in TasksOf(w) :
                    status[w][t] = PENDING =>
                        \E d \in workflow[w].dependencies[t] :
                            d \notin TasksOf(w) \/ status[w][d] # COMPLETED]_vars

\* C25: a pass of the driver creates coroutines for exactly
\* min(number of ready tasks, max_concurrent_tasks - _running_tasks) tasks,
\* none when _running_tasks has reached max_concurrent_tasks, and the ready
\* tasks it leaves out stay PENDING.
C25_PassStartsUpToFreeSlots ==
    [][\A w \in WorkflowIds :
          ExecuteWorkflowPass(w) =>
              LET ready == {t \in TasksOf(w) :
                              /\ status[w][t] = PENDING
                              /\ \A d \in workflow[w].dependencies[t] :
                                    d \in TasksOf(w) /\ status[w][d] = COMPLETED}
                  started == {t \in TasksOf(w) :
                                task_pc[w][t] = "idle" /\ task_pc'[w][t] = "spawned"}
                  free == max_concurrent_tasks - running_tasks
              IN  /\ started \subseteq ready
                  /\ Cardinality(started) =
                        IF free <= 0 THEN 0
                        ELSE IF Cardinality(ready) < free THEN Cardinality(ready) ELSE free
                  /\ \A t \in ready \ started : status'[w][t] = PENDING]_vars

\* C26: in a pass of the driver, when a task gets its coroutine every ready
\* task declared before it in the workflow's task list gets one too.
C26_DispatchInDeclarationOrder ==
    [][\A w \in WorkflowIds :
          ExecuteWorkflowPass(w) =>
              \A j \in 1..Len(workflow[w].tasks) : \A i \in 1..(j - 1) :
                  LET early == workflow[w].tasks[i]
                      late == workflow[w].tasks[j]
                  IN  (/\ task_pc[w][late] = "idle" /\ task_pc'[w][late] = "spawned"
                       /\ status[w][early] = PENDING
                       /\ \A d \in workflow[w].dependencies[early] :
                             d \in TasksOf(w) /\ status[w][d] = COMPLETED) =>
                          task_pc'[w][early] = "spawned"]_vars

C26_Witness ==
    /\ workflow["w1"] = Independent
    /\ max_concurrent_tasks = 2
    /\ task_pc["w1"] = [t \in TaskIds |-> IF t = "c" THEN "idle" ELSE "spawned"]
    /\ status["w1"]["c"] = PENDING
    /\ running_tasks = 0

\* C27: every change of a task's status is PENDING -> RUNNING,
\* RUNNING -> COMPLETED, RUNNING -> FAILED, FAILED -> PENDING with
\* retry_count below max_retries before the step, or RUNNING -> CANCELLED in
\* a step that cancels the task's workflow.
C27_OnlyAllowedTaskEdges ==
    [][\A p \in Tasks :
          LET old == status[p[1]][p[2]]
              new == status'[p[1]][p[2]]
          IN  new # old =>
                  \/ old = PENDING /\ new = RUNNING
                  \/ old = RUNNING /\ new = COMPLETED
                  \/ old = RUNNING /\ new = FAILED
                  \/ /\ old = FAILED /\ new = PENDING
                     /\ retry_count[p[1]][p[2]] < workflow[p[1]].max_retries[p[2]]
                  \/ /\ old = RUNNING /\ new = CANCELLED
                     /\ wf_status[p[1]] # CANCELLED /\ wf_status'[p[1]] = CANCELLED]_vars

\* C28: a COMPLETED task keeps its status and its result in every step, and
\* a task that is FAILED with retry_count equal to max_retries keeps its
\* status in every step.
C28_CompletedAndExhaustedAreFinal ==
    [][\A p \in Tasks :
          /\ status[p[1]][p[2]] = COMPLETED =>
                /\ status'[p[1]][p[2]] = COMPLETED
                /\ result'[p[1]][p[2]] = result[p[1]][p[2]]
          /\ (/\ status[p[1]][p[2]] = FAILED
              /\ retry_count[p[1]][p[2]] = workflow[p[1]].max_retries[p[2]]) =>
                /\ status'[p[1]][p[2]] = FAILED
                /\ retry_count'[p[1]][p[2]] = retry_count[p[1]][p[2]]]_vars

C28_Witness ==
    /\ workflow["w1"] = Chain
    /\ status["w1"]["a"] = COMPLETED
    /\ status["w1"]["b"] = FAILED
    /\ retry_count["w1"]["b"] = MaxRetries
    /\ task_pc["w1"]["b"] = "idle"
    /\ wf_status["w1"] = CANCELLED

\* C29: the workflow context has a key for a task id exactly when that task
\* is COMPLETED, and then the task's result is the one its executor returned;
\* the context has no other keys.
C29_ContextKeysAreCompletedTasks ==
    /\ \A w \in WorkflowIds : context[w] \subseteq TasksOf(w)
    /\ \A p \in Tasks :
          /\ p[2] \in context[p[1]] <=> status[p[1]][p[2]] = COMPLETED
          /\ p[2] \in context[p[1]] => result[p[1]][p[2]] = "ok"

C29_Witness ==
    /\ workflow["w1"] = Chain
    /\ context["w1"] = {"a"}
    /\ status["w1"]["b"] = RUNNING
    /\ retry_count["w1"]["b"] = 1
    /\ result["w1"]["b"] = "error"

\* C30: the step that ends a failed attempt of a task with retry_count below
\* max_retries adds exactly one to retry_count, clears started_at and
\* completed_at and sets the task PENDING; with retry_count at max_retries it
\* leaves them alone; no step lowers retry_count, and retry_count stays
\* between 0 and max_retries.
C30_RetryBookkeeping ==
    /\ [](\A p \in Tasks :
            /\ 0 <= retry_count[p[1]][p[2]]
            /\ retry_count[p[1]][p[2]] <= workflow[p[1]].max_retries[p[2]])
    /\ [][\A p \in Tasks :
            LET w == p[1]
                t == p[2]
            IN  /\ retry_count'[w][t] >= retry_count[w][t]
                /\ (task_pc[w][t] = "notify_failed" /\ task_pc'[w][t] = "idle") =>
                      IF retry_count[w][t] < workflow[w].max_retries[t]
                      THEN /\ retry_count'[w][t] = retry_count[w][t] + 1
                           /\ status'[w][t] = PENDING
                           /\ started_at'[w][t] = "None"
                           /\ completed_at'[w][t] = "None"
                      ELSE /\ retry_count'[w][t] = retry_count[w][t]
                           /\ status'[w][t] = status[w][t]
                /\ retry_count'[w][t] # retry_count[w][t] =>
                      task_pc[w][t] = "notify_failed"]_vars

C30_Witness ==
    /\ workflow["w1"] = FanIn
    /\ status["w1"]["a"] = PENDING
    /\ retry_count["w1"]["a"] = MaxRetries
    /\ started_at["w1"]["a"] = "None"
    /\ completed_at["w1"]["a"] = "None"
    /\ task_pc["w1"]["a"] = "idle"
    /\ result["w1"]["a"] = "error"

\* Tasks t depends on, directly or through at most n further tasks.
RECURSIVE Ancestors(_, _, _)
Ancestors(w, t, n) ==
    IF n = 0 THEN {}
    ELSE LET direct == workflow[w].dependencies[t] \cap TasksOf(w)
         IN  direct \cup UNION {Ancestors(w, d, n - 1) : d \in direct}

OnCycle(w, t) == t \in TasksOf(w) /\ t \in Ancestors(w, t, Cardinality(TaskIds))

HasCycle(w) == \E t \in TaskIds : OnCycle(w, t)

\* C31: a workflow with a dependency cycle is registered by create_workflow
\* (when there is room) and started by start_workflow like any other; no task
\* on the cycle ever leaves PENDING or gets a coroutine; and once the workflow
\* runs and every task outside the cycle has finished, the workflow
\* eventually is FAILED.
C31_CycleIsAcceptedAndDeadlocks ==
    /\ [][\A w \in WorkflowIds :
            HasCycle(w) =>
                /\ (CreateWorkflow(w)
                       /\ Cardinality(active_workflows) < max_concurrent_workflows) =>
                        ret' = w /\ w \in active_workflows'
                /\ (StartWorkflow(w) /\ w \in active_workflows /\ wf_status[w] = CREATED) =>
                        ret' = "True" /\ wf_status'[w] = RUNNING /\ driver'[w] = "sleeping"]_vars
    /\ [](\A w \in WorkflowIds, t \in TaskIds :
            OnCycle(w, t) =>
                starts[w][t] = 0 /\ task_pc[w][t] = "idle" /\ status[w][t] = PENDING)
    /\ \A w \in WorkflowIds :
          (/\ HasCycle(w)
           /\ driver[w] = "sleeping"
           /\ \A t \in TaskIds :
                 (t \in TasksOf(w) /\ ~OnCycle(w, t)) =>
                     task_pc[w][t] = "idle" /\ status[w][t] \in {COMPLETED, FAILED})
              ~> (wf_status[w] = FAILED)

C31_Witness ==
    /\ workflow["w1"] = Cycle
    /\ wf_status["w1"] = FAILED
    /\ metadata["w1"] = "stuck"
    /\ status["w1"]["a"] = COMPLETED
    /\ status["w1"]["b"] = PENDING /\ starts["w1"]["b"] = 0
    /\ status["w1"]["c"] = PENDING /\ starts["w1"]["c"] = 0
    /\ events["w1"]["workflow_failed"] = 1

\* C32: a workflow whose status is FAILED has an error reason in its
\* metadata, is in completed_workflows and is not in active_workflows.
C32_FailedHasReasonAndIsCompleted ==
    \A w \in WorkflowIds :
        wf_status[w] = FAILED =>
            /\ metadata[w] # "none"
            /\ w \in completed_workflows
            /\ w \notin active_workflows

C32_Witness ==
    /\ wf_status["w1"] = FAILED
    /\ metadata["w1"] = "stuck"
    /\ "w1" \in completed_workflows
    /\ "w1" \notin active_workflows
    /\ driver["w1"] = "done"
    /\ "w2" \in active_workflows

\* C33: a task is set RUNNING, and task_started handed to the listeners, only
\* after workflow_started was; a task's task_completed or task_failed is
\* handed out only after its task_started; and in the step in which
\* workflow_completed is handed to the listeners, every listener has already
\* been called with task_completed for every task of the workflow.
C33_ListenersSeeCausalOrder ==
    /\ [](\A p \in Tasks :
            /\ starts[p[1]][p[2]] >= 1 => events[p[1]]["workflow_started"] >= 1
            /\ (task_completed_seen[p[1]][p[2]] >= 1 \/ result[p[1]][p[2]] # "none") =>
                  starts[p[1]][p[2]] >= 1)
    /\ [][\A w \in WorkflowIds :
            events'[w]["workflow_completed"] > events[w]["workflow_completed"] =>
                \A t \in TasksOf(w) : \A i \in 1..Len(workflow_listeners) :
                    i <= task_completed_seen[w][t]]_vars

\* C34: no workflow is in both collections; a workflow in active_workflows is
\* CREATED or RUNNING and a workflow in completed_workflows is COMPLETED,
\* FAILED or CANCELLED, and the other way round for every workflow the engine
\* holds; a workflow in completed_workflows stays there and never enters
\* active_workflows again.
C34_CollectionsPartitionByStatus ==
    /\ [](/\ active_workflows \cap completed_workflows = {}
          /\ \A w \in active_workflows : wf_status[w] \in {CREATED, RUNNING}
          /\ \A w \in completed_workflows : wf_status[w] \in Terminal
          /\ \A w \in active_workflows \cup completed_workflows :
                /\ wf_status[w] \in {CREATED, RUNNING} => w \in active_workflows
                /\ wf_status[w] \in Terminal => w \in completed_workflows)
    /\ [][\A w \in completed_workflows :
            w \in completed_workflows' /\ w \notin active_workflows']_vars

C34_Witness ==
    /\ "w1" \in completed_workflows
    /\ wf_status["w1"] = CANCELLED
    /\ driver["w1"] = "sleeping"
    /\ "w2" \in active_workflows
    /\ wf_status["w2"] = RUNNING

TerminalEvents(w) ==
    events[w]["workflow_completed"] + events[w]["workflow_failed"]
        + events[w]["workflow_cancelled"]

\* C35: for each workflow, workflow_completed, workflow_failed and
\* workflow_cancelled together are handed to the listeners at most once.
C35_AtMostOneTerminalEvent ==
    \A w \in WorkflowIds : TerminalEvents(w) <= 1

C35_Witness ==
    /\ events["w1"]["workflow_cancelled"] = 1
    /\ events["w1"]["workflow_completed"] = 0
    /\ events["w1"]["workflow_failed"] = 0
    /\ driver["w1"] = "crashed"
    /\ wf_status["w1"] = FAILED

\* C36: the driver creates a coroutine for a task only when no coroutine of
\* that task exists (none created and not yet started, none in its executor
\* call, none in its listeners or retry handling), and a task that has a
\* coroutine past its first step is not PENDING, so it is not ready.
C36_OneExecutionInFlight ==
    /\ [](\A p \in Tasks :
            status[p[1]][p[2]] = PENDING => task_pc[p[1]][p[2]] \in {"idle", "spawned"})
    /\ [][\A p \in Tasks :
            (task_pc'[p[1]][p[2]] = "spawned" /\ task_pc[p[1]][p[2]] # "spawned") =>
                task_pc[p[1]][p[2]] = "idle"]_vars

C36_Witness ==
    /\ workflow["w1"] = FanIn
    /\ task_pc["w1"]["a"] = "spawned"
    /\ starts["w1"]["a"] = 1
    /\ retry_count["w1"]["a"] = 1
    /\ task_pc["w1"]["b"] = "notify_failed"

\* C37: a cancel_workflow call that cancels workflow w turns exactly the
\* RUNNING tasks of w CANCELLED and leaves the status of its other tasks, and
\* retry_count, result and the context of w, as they were; it changes no
\* status, task, context or collection membership of any other workflow; and
\* a call that returns False changes nothing.
C37_CancelFrame ==
    [][\A w \in WorkflowIds :
          /\ events'[w]["workflow_cancelled"] > events[w]["workflow_cancelled"] =>
                /\ \A t \in TaskIds :
                      /\ status'[w][t] =
                            IF t \in TasksOf(w) /\ status[w][t] = RUNNING
                            THEN CANCELLED ELSE status[w][t]
                      /\ retry_count'[w][t] = retry_count[w][t]
                      /\ result'[w][t] = result[w][t]
                /\ context' = context
                /\ running_tasks' = running_tasks
                /\ \A v \in WorkflowIds \ {w} :
                      /\ wf_status'[v] = wf_status[v]
                      /\ metadata'[v] = metadata[v]
                      /\ status'[v] = status[v]
                      /\ retry_count'[v] = retry_count[v]
                      /\ result'[v] = result[v]
                      /\ events'[v] = events[v]
                      /\ (v \in active_workflows') = (v \in active_workflows)
                      /\ (v \in completed_workflows') = (v \in completed_workflows)
          /\ (CancelWorkflow(w) /\ w \notin active_workflows) =>
                /\ ret' = "False"
                /\ UNCHANGED <<status, retry_count, result, context, wf_status, metadata,
                               active_workflows, completed_workflows, running_tasks,
                               events>>]_vars

C37_Witness ==
    /\ workflow["w1"] = FanIn
    /\ wf_status["w1"] = CANCELLED
    /\ ret = "True"
    /\ status["w1"]["a"] = COMPLETED /\ result["w1"]["a"] = "ok"
    /\ status["w1"]["b"] = CANCELLED /\ task_pc["w1"]["b"] = "executing"
    /\ status["w1"]["c"] = PENDING
    /\ retry_count["w1"]["a"] = 1
    /\ context["w1"] = {"a"}
    /\ wf_status["w2"] = RUNNING
    /\ status["w2"]["a"] = RUNNING

\* Task coroutines between their increment of _running_tasks and their
\* finally clause.
InFlight ==
    {p \in Tasks : task_pc[p[1]][p[2]] \in {"executing", "notify_completed", "notify_failed"}}

\* C38: _running_tasks is the number of task coroutines that have started
\* and not yet ended, whatever the status of their tasks; it is never
\* negative, it is 0 when there is none, and a step changes it by one exactly
\* when one coroutine starts (plus one) or ends (minus one).
C38_RunningTasksCountsInFlight ==
    /\ [](/\ running_tasks = Cardinality(InFlight)
          /\ running_tasks >= 0
          /\ (\A p \in Tasks : task_pc[p[1]][p[2]] \in {"idle", "spawned"}) =>
                running_tasks = 0)
    /\ [][\A p \in Tasks :
            LET w == p[1]
                t == p[2]
            IN  /\ (task_pc[w][t] = "spawned" /\ task_pc'[w][t] = "executing") =>
                      running_tasks' = running_tasks + 1
                /\ (task_pc[w][t] \in {"notify_completed", "notify_failed"}
                       /\ task_pc'[w][t] = "idle") =>
                      running_tasks' = running_tasks - 1]_vars

C38_Witness ==
    /\ running_tasks = 2
    /\ wf_status["w1"] = CANCELLED
    /\ \E t \in TasksOf("w1") : status["w1"][t] = CANCELLED /\ task_pc["w1"][t] = "executing"
    /\ task_pc["w2"]["a"] = "notify_failed"

====
